---- MODULE Spec2Model ----
(***************************************************************************)
(* GalvanizeDB CLI (src/galvanizedb/src/main.rs): the session loop of      *)
(* main(), its command classification and the database-name normalisation. *)
(* Text is modelled as sequences of one-character strings so that the      *)
(* prefix tests, tokenisation and suffix handling are computed as the code *)
(* computes them.  The SQL engine (sqlx), the filesystem and the line      *)
(* editor are the environment: their outcomes are nondeterministic.        *)
(***************************************************************************)
EXTENDS Integers, Sequences, FiniteSets, TLC

\* Number of pools the engine hands out before every later open fails.
MaxOpens == 2
\* Number of close() calls followed on one pool.
MaxCloses == 2

----------------------------------------------------------------------------
(* Characters and text                                                     *)

UpperChars == <<"A","B","C","D","E","F","G","H","I","J","K","L","M",
                "N","O","P","Q","R","S","T","U","V","W","X","Y","Z">>
LowerChars == <<"a","b","c","d","e","f","g","h","i","j","k","l","m",
                "n","o","p","q","r","s","t","u","v","w","x","y","z">>

LowerChar(c) ==
    IF \E i \in DOMAIN UpperChars : UpperChars[i] = c
    THEN LowerChars[CHOOSE i \in DOMAIN UpperChars : UpperChars[i] = c]
    ELSE c

UpperChar(c) ==
    IF \E i \in DOMAIN LowerChars : LowerChars[i] = c
    THEN UpperChars[CHOOSE i \in DOMAIN LowerChars : LowerChars[i] = c]
    ELSE c

to_lowercase(s) == [i \in 1..Len(s) |-> LowerChar(s[i])]
to_uppercase(s) == [i \in 1..Len(s) |-> UpperChar(s[i])]
eq_ignore_ascii_case(a, b) == to_lowercase(a) = to_lowercase(b)

starts_with(s, p) == Len(s) >= Len(p) /\ SubSeq(s, 1, Len(p)) = p
ends_with(s, p) == Len(s) >= Len(p) /\ SubSeq(s, Len(s) - Len(p) + 1, Len(s)) = p

IsWhitespace(c) == c \in {" ", "\t"}

\* str::trim: drop the leading and the trailing whitespace.
trim(s) ==
    LET kept == {i \in 1..Len(s) : ~IsWhitespace(s[i])} IN
    IF kept = {} THEN <<>>
    ELSE SubSeq(s, CHOOSE i \in kept : \A j \in kept : i <= j,
                   CHOOSE i \in kept : \A j \in kept : j <= i)

\* str::split_whitespace: the maximal runs of non-whitespace characters, in order.
split_whitespace(s) ==
    LET n == Len(s)
        starts == {i \in 1..n : ~IsWhitespace(s[i]) /\ (i = 1 \/ IsWhitespace(s[i - 1]))}
        ends == {i \in 1..n : ~IsWhitespace(s[i]) /\ (i = n \/ IsWhitespace(s[i + 1]))}
        Nth(S, k) == CHOOSE x \in S : Cardinality({y \in S : y <= x}) = k
    IN  [k \in 1..Cardinality(starts) |-> SubSeq(s, Nth(starts, k), Nth(ends, k))]

\* Option<T>
None == [some |-> FALSE]
Some(x) == [some |-> TRUE, val |-> x]

\* str::strip_suffix(';').unwrap_or(tok)
strip_terminator(tok) ==
    IF ends_with(tok, <<";">>) THEN SubSeq(tok, 1, Len(tok) - 1) ELSE tok

DotDb == <<".", "d", "b">>

\* A normalization that appends the extension whatever the name ends with.
format_db_name_always_append(name) == name \o DotDb

format_db_name(name) ==
    IF ~ends_with(name, DotDb) THEN name \o DotDb ELSE name

KwUse == <<"U","S","E">>
KwCreate == <<"C","R","E","A","T","E">>
KwDrop == <<"D","R","O","P">>
KwDatabase == <<"d","a","t","a","b","a","s","e">>

extract_db_name(input) ==
    LET parts == split_whitespace(input) IN
    IF Len(parts) >= 2
    THEN LET command == to_uppercase(parts[1]) IN
         IF command = KwUse /\ Len(parts) = 2
         THEN Some(format_db_name(strip_terminator(parts[2])))
         ELSE IF (command = KwCreate \/ command = KwDrop) /\ Len(parts) >= 3
                 /\ eq_ignore_ascii_case(parts[2], KwDatabase)
              THEN Some(format_db_name(strip_terminator(parts[3])))
              ELSE None
    ELSE None

----------------------------------------------------------------------------
(* Input lines offered by the line editor                                  *)

SP == <<" ">>
Semi == <<";">>
Foo == <<"f","o","o">>
Bar == <<"b","a","r">>
FooDb == <<"f","o","o",".","d","b">>
BarDb == <<"b","a","r",".","d","b">>
NoneName == <<"N","o","n","e">>

PrefixUse == <<"u","s","e"," ">>
PrefixCreateDatabase == <<"c","r","e","a","t","e"," ","d","a","t","a","b","a","s","e"," ">>
PrefixDropSchema == <<"d","r","o","p"," ","s","c","h","e","m","a"," ">>
PrefixDropDatabase == <<"d","r","o","p"," ","d","a","t","a","b","a","s","e"," ">>
TextShowTables == <<"s","h","o","w"," ","t","a","b","l","e","s",";">>
TextHelp == <<"h","e","l","p">>
TextExit == <<"e","x","i","t">>
TextSelect == <<"s","e","l","e","c","t">>

WordDATABASE == <<"D","A","T","A","B","A","S","E">>
WordSCHEMA == <<"S","C","H","E","M","A">>

LineUseFoo == KwUse \o SP \o Foo
LineUseFooDbSemi == PrefixUse \o FooDb \o Semi
LineUseBarSemi == KwUse \o SP \o Bar \o Semi
LineCreateFooSemi == KwCreate \o SP \o WordDATABASE \o SP \o Foo \o Semi
LineCreateBar == PrefixCreateDatabase \o Bar
LineDropSchemaFoo == KwDrop \o SP \o WordSCHEMA \o SP \o Foo \o Semi
LineDropFooSemi == KwDrop \o SP \o WordDATABASE \o SP \o Foo \o Semi
LineDropBarDb == PrefixDropDatabase \o BarDb
LineShowTables == <<"S","H","O","W"," ","T","A","B","L","E","S",";">>
LineShowTablesNoSemi == <<"s","h","o","w"," ","t","a","b","l","e","s">>
LineHelp == <<"H","e","l","p">>
LineQuestion == <<"?">>
LineExit == <<"E","X","I","T">>
LineSelect == <<" ","S","E","L","E","C","T"," ","1",";">>
LineInsert == <<"I","N","S","E","R","T"," ","x",";">>
LineBlank == SP
\* USE / CREATE DATABASE / DROP DATABASE with the wrong number of tokens
LineUseOnly == KwUse
LineUseTrailing == KwUse \o SP
LineUseTwoNames == KwUse \o SP \o Foo \o SP \o Bar
LineCreateOnly == KwCreate \o SP \o WordDATABASE
LineCreateTwoNames == KwCreate \o SP \o WordDATABASE \o SP \o Foo \o SP \o Bar
LineDropOnly == KwDrop \o SP \o WordDATABASE
LineDropTwoNames == KwDrop \o SP \o WordDATABASE \o SP \o Foo \o SP \o Bar

ShowTablesQuery ==
    <<"S","E","L","E","C","T"," ","n","a","m","e"," ","F",
      "R","O","M"," ","s","q","l","i","t","e","_","m","a",
      "s","t","e","r"," ","W","H","E","R","E"," ","t","y",
      "p","e","=","'","t","a","b","l","e","'",";">>

Lines ==
    { LineUseFoo, LineUseFooDbSemi, LineUseBarSemi, LineCreateFooSemi, LineCreateBar,
      LineDropSchemaFoo, LineDropFooSemi, LineDropBarDb,
      LineShowTables, LineShowTablesNoSemi, LineHelp, LineQuestion, LineExit,
      LineSelect, LineInsert, LineBlank,
      LineUseOnly, LineUseTrailing, LineUseTwoNames,
      LineCreateOnly, LineCreateTwoNames, LineDropOnly, LineDropTwoNames }

\* The if / else-if chain of main() that routes one line.
Classify(line) ==
    LET lower == to_lowercase(line) IN
    IF starts_with(lower, PrefixUse) \/ starts_with(lower, PrefixCreateDatabase)
    THEN "use_create"
    ELSE IF starts_with(lower, PrefixDropSchema) THEN "drop_schema"
    ELSE IF lower = TextShowTables THEN "show_tables"
    ELSE IF starts_with(lower, PrefixDropDatabase) THEN "drop_database"
    ELSE IF lower = TextHelp \/ line = LineQuestion THEN "help"
    ELSE IF lower = TextExit THEN "exit"
    ELSE "raw"

\* The offered lines by the branch of main() that takes them, and by the prefix
\* tests of lines 161 and 166 (constant sets, evaluated once).
Routed ==
    [use_create |-> {l \in Lines : Classify(l) = "use_create"},
     drop_schema |-> {l \in Lines : Classify(l) = "drop_schema"},
     show_tables |-> {l \in Lines : Classify(l) = "show_tables"},
     drop_database |-> {l \in Lines : Classify(l) = "drop_database"},
     help |-> {l \in Lines : Classify(l) = "help"},
     exit |-> {l \in Lines : Classify(l) = "exit"},
     raw |-> {l \in Lines : Classify(l) = "raw"}]
\* The lines of the USE / CREATE DATABASE branch, whatever their keyword.
OpenLines ==
    {l \in Lines : \/ starts_with(to_lowercase(l), PrefixUse)
                   \/ starts_with(to_lowercase(l), PrefixCreateDatabase)}
UseLines == {l \in Lines : starts_with(to_lowercase(l), PrefixUse)}
CreateLines == {l \in Lines : starts_with(to_lowercase(l), PrefixCreateDatabase)}
\* extract_db_name of every offered line (a constant table, evaluated once)
Extracted == {<<l, extract_db_name(l)>> : l \in Lines}
DbNameOf(line) == (CHOOSE p \in Extracted : p[1] = line)[2]
\* execute_sql line 70, for the statements that can reach it
SelectStatements ==
    {l \in Lines \cup {ShowTablesQuery} : starts_with(to_lowercase(trim(l)), TextSelect)}

----------------------------------------------------------------------------
(* Result rendering: execute_sql, the select branch                        *)

\* Bounds on the result sets the engine returns.
MaxCols == 2
MaxRows == 2

Digits == <<"0","1","2","3","4","5","6","7","8","9">>

RECURSIVE NatToString(_)
NatToString(n) ==
    IF n < 10 THEN <<Digits[n + 1]>>
    ELSE Append(NatToString(n \div 10), Digits[(n % 10) + 1])

\* i64::to_string
i64_to_string(n) == IF n < 0 THEN <<"-">> \o NatToString(-n) ELSE NatToString(n)

\* f64::to_string of a value given by sign, whole part and fraction digits:
\* no fraction part is printed for a whole number.
f64_to_string(v) ==
    (IF v.neg THEN <<"-">> ELSE <<>>) \o NatToString(v.whole)
        \o (IF v.frac = <<>> THEN <<>> ELSE <<".">> \o v.frac)

\* Cell values as the engine stores them.
TextValue(t) == [kind |-> "Text", text |-> t]
IntegerValue(n) == [kind |-> "Integer", int |-> n]
RealValue(neg, whole, frac) == [kind |-> "Real", neg |-> neg, whole |-> whole, frac |-> frac]
NullValue == [kind |-> "Null"]
BlobValue == [kind |-> "Blob"]

\* row.try_get::<T, _>(col.name()): the row looks the column up by its NAME
\* (idx: name -> position), then decodes the value found there; Err is None.
ValueByName(row, col, idx) == row[idx[col.name]]
try_get_String(row, col, idx) ==
    LET v == ValueByName(row, col, idx) IN
    IF v.kind = "Text" THEN Some(v.text) ELSE None
try_get_i64(row, col, idx) ==
    LET v == ValueByName(row, col, idx) IN
    IF v.kind = "Integer" THEN Some(v.int) ELSE None
try_get_f64(row, col, idx) ==
    LET v == ValueByName(row, col, idx) IN
    IF v.kind = "Real" THEN Some(v) ELSE None

UnsupportedType ==
    <<"U","n","s","u","p","p","o","r","t","e","d"," ","t","y","p","e">>
TypeTEXT == <<"T","E","X","T">>
TypeINTEGER == <<"I","N","T","E","G","E","R">>
TypeREAL == <<"R","E","A","L">>
TypeBLOB == <<"B","L","O","B">>

\* The length the width pass measures for one cell (lines 83-87).
CellLength(row, col, idx) ==
    IF col.type = TypeTEXT
    THEN LET r == try_get_String(row, col, idx) IN IF r.some THEN Len(r.val) ELSE 0
    ELSE IF col.type = TypeINTEGER
    THEN LET r == try_get_i64(row, col, idx) IN
         IF r.some THEN Len(i64_to_string(r.val)) ELSE 0
    ELSE Len(UnsupportedType)

\* The text the print pass writes for one cell (lines 116-123).
CellText(row, col, idx) ==
    IF col.type = TypeTEXT
    THEN LET r == try_get_String(row, col, idx) IN IF r.some THEN r.val ELSE <<>>
    ELSE IF col.type = TypeINTEGER
    THEN LET r == try_get_i64(row, col, idx) IN
         IF r.some THEN i64_to_string(r.val) ELSE <<>>
    ELSE LET r == try_get_f64(row, col, idx) IN
         IF r.some THEN f64_to_string(r.val) ELSE UnsupportedType

MaxOf(a, b) == IF a >= b THEN a ELSE b

\* column_widths after the pass over the first k rows (lines 79-90).
RECURSIVE WidthAfter(_, _, _, _)
WidthAfter(rs, idx, i, k) ==
    IF k = 0 THEN Len(rs.columns[i].name)
    ELSE MaxOf(WidthAfter(rs, idx, i, k - 1), CellLength(rs.rows[k], rs.columns[i], idx))

column_widths(rs, idx) ==
    [i \in 1..Len(rs.columns) |-> WidthAfter(rs, idx, i, Len(rs.rows))]

Repeat(c, n) == [k \in 1..n |-> c]

RECURSIVE Join(_, _)
Join(parts, sep) ==
    IF parts = <<>> THEN <<>>
    ELSE IF Len(parts) = 1 THEN parts[1]
    ELSE parts[1] \o sep \o Join(Tail(parts), sep)

\* widths.iter().map(|w| "-".repeat(*w + 2)).collect().join("+")
create_line(widths) ==
    Join([i \in 1..Len(widths) |-> Repeat("-", widths[i] + 2)], <<"+">>)

BorderLine(widths) == <<"+">> \o create_line(widths) \o <<"+">>

\* print!("| {:width$} ", value): pads to width, never truncates.
PrintCell(value, width) ==
    <<"|", " ">> \o value \o Repeat(" ", width - Len(value)) \o <<" ">>

HeaderLine(rs, widths) ==
    Join([i \in 1..Len(rs.columns) |-> PrintCell(rs.columns[i].name, widths[i])], <<>>)
        \o <<"|">>

DataLine(rs, idx, widths, row) ==
    Join([i \in 1..Len(rs.columns) |->
             PrintCell(CellText(row, rs.columns[i], idx), widths[i])], <<>>)
        \o <<"|">>

OutLine(k, t) == [kind |-> k, text |-> t]
NoResultsFound ==
    <<"N","o"," ","r","e","s","u","l","t","s"," ","f","o","u","n","d",".">>

\* A renderer without the early return for an empty result: it prints the
\* table frame whatever the row count.
render_without_empty_case(rs, idx) ==
    LET widths == column_widths(rs, idx) IN
    <<OutLine("border", BorderLine(widths)),
      OutLine("header", HeaderLine(rs, widths)),
      OutLine("border", BorderLine(widths))>>
    \o [r \in 1..Len(rs.rows) |-> OutLine("data", DataLine(rs, idx, widths, rs.rows[r]))]
    \o <<OutLine("border", BorderLine(widths))>>

\* What execute_sql prints for the rows fetch_all returned (lines 73-130).
render(rs, idx) ==
    IF rs.rows = <<>>
    THEN <<OutLine("info", NoResultsFound)>>
    ELSE LET widths == column_widths(rs, idx) IN
         <<OutLine("border", BorderLine(widths)),
           OutLine("header", HeaderLine(rs, widths)),
           OutLine("border", BorderLine(widths))>>
         \o [r \in 1..Len(rs.rows) |-> OutLine("data", DataLine(rs, idx, widths, rs.rows[r]))]
         \o <<OutLine("border", BorderLine(widths))>>

\* Result sets offered by the engine: columns (their names not necessarily
\* distinct within a result), declared types, and for each type a cell the
\* matching read decodes and one it does not (or, for REAL, a short and a long
\* number).
ColumnTypes == {TypeTEXT, TypeINTEGER, TypeREAL, TypeBLOB}
LongReal == RealValue(FALSE, 3, <<"1","4","1","5","9","2","6","5","3","5","8","9","7","9","3">>)
ShortReal == RealValue(TRUE, 1, <<"5">>)
CellsOfType(t) ==
    IF t = TypeTEXT THEN {TextValue(<<"h","e","l","l","o">>), NullValue}
    ELSE IF t = TypeINTEGER THEN {IntegerValue(-12), TextValue(<<"x">>)}
    ELSE IF t = TypeREAL THEN {ShortReal, LongReal}
    ELSE {BlobValue, RealValue(FALSE, 2, <<>>)}
Columns ==
    {[name |-> <<"a">>, type |-> TypeTEXT], [name |-> <<"a">>, type |-> TypeREAL],
     [name |-> <<"i","d">>, type |-> TypeINTEGER], [name |-> <<"i","d">>, type |-> TypeBLOB]}
ColumnLists == UNION {[1..m -> Columns] : m \in 1..MaxCols}
RowsOf(cols) ==
    {row \in [1..Len(cols) -> UNION {CellsOfType(t) : t \in ColumnTypes}] :
        \A i \in 1..Len(cols) : row[i] \in CellsOfType(cols[i].type)}
RowLists(cols) == UNION {[1..n -> RowsOf(cols)] : n \in 0..MaxRows}
\* The rows' name -> position maps: a name borne by several columns leads to
\* one of them.
NameIndexes(cols) ==
    {f \in [{cols[i].name : i \in 1..Len(cols)} -> 1..Len(cols)] :
        \A n \in DOMAIN f : cols[f[n]].name = n}
NoResultSet == [columns |-> <<>>, rows |-> <<>>]

----------------------------------------------------------------------------
(* Session state, the environment and what one loop iteration did          *)

VARIABLES
    database_name,  \* main(): let mut database_name
    sql_pool,       \* main(): let mut sql_pool: Option<SqlitePool>
    running,        \* FALSE once the loop was left by break
    files,          \* the database files that exist on disk
    next_pool,      \* identity of the next pool the engine hands out
    pool_file,      \* pool -> file it was opened on
    closes,         \* pool -> number of close() calls made on it
    dropped,        \* pools whose handle the program has released
    out,            \* messages printed by the last loop iteration
    calls,          \* engine and filesystem calls of the last loop iteration, in order
    readline,          \* what readline returned in the last loop iteration
    pre,            \* database_name and sql_pool as they were before it
    events,         \* prints and calls of the last loop iteration, interleaved as made
    result_set,     \* execute_sql: the columns and rows fetch_all returned
    name_index,     \* execute_sql: the rows' column name -> position map
    emitted,        \* execute_sql: the lines printed for result_set
    rendered,       \* execute_sql: TRUE once result_set was printed
    returned,       \* execute_sql: its return value once it returned
    name_line,      \* extract_db_name: its input
    name_file,      \* extract_db_name: its result
    name_refile,    \* the result normalised once more
    name_pc         \* "read", "extracted" or "again"

render_vars == <<result_set, name_index, emitted, rendered, returned>>
name_vars == <<name_line, name_file, name_refile, name_pc>>

vars == <<database_name, sql_pool, running, files, next_pool, pool_file, closes,
          dropped, out, calls, readline, pre, events, render_vars, name_vars>>

Pools == 1..MaxOpens
DbNames == {FooDb, BarDb}

Msg(m, a) == [msg |-> m, arg |-> a]
Call(o, h, a, r) == [op |-> o, pool |-> h, arg |-> a, res |-> r]

ReadLine(line) == [kind |-> "Ok", line |-> line]
ReadErr(k) == [kind |-> k, line |-> <<>>]
Session == [database_name |-> database_name, sql_pool |-> sql_pool]

\* No result set is being printed.
RenderIdle ==
    /\ result_set = NoResultSet
    /\ name_index = <<>>
    /\ emitted = <<>>
    /\ rendered = FALSE
    /\ returned = "none"

\* No name is being extracted.
NameIdle ==
    /\ name_line = <<>>
    /\ name_file = None
    /\ name_refile = None
    /\ name_pc = "idle"

\* main() before the loop, on a disk holding the files in fs.
SessionStart(fs) ==
    /\ database_name = NoneName
    /\ sql_pool = None
    /\ running = TRUE
    /\ files = fs
    /\ next_pool = 1
    /\ pool_file = [h \in Pools |-> <<>>]
    /\ closes = [h \in Pools |-> 0]
    /\ dropped = {}
    /\ out = <<>>
    /\ calls = <<>>
    /\ events = <<>>
    /\ readline = [kind |-> "start", line |-> <<>>]
    /\ pre = [database_name |-> NoneName, sql_pool |-> None]

Init ==
    /\ RenderIdle
    /\ NameIdle
    /\ \E fs \in SUBSET DbNames : SessionStart(fs)

\* Rust drops the value an Option<SqlitePool> held when it is overwritten.
Released(old) == IF old.some THEN {old.val} ELSE {}

db_file_check(db_file_name) == db_file_name \in files


\* execute_sql: what the engine can answer on pool h for statement sql, with the
\* call made and the lines execute_sql itself prints.  A closed pool refuses.
execute_sql(h, sql) ==
    LET select == sql \in SelectStatements
        op == IF select THEN "fetch_all" ELSE "execute"
        err == [ok |-> FALSE, call |-> Call(op, h, sql, "Err"), printed |-> <<>>]
    IN  IF closes[h] > 0
        THEN {err}
        ELSE IF select
             THEN {err,
                   [ok |-> TRUE, call |-> Call(op, h, sql, "NoRows"),
                    printed |-> <<Msg("No results found.", <<>>)>>],
                   [ok |-> TRUE, call |-> Call(op, h, sql, "Rows"),
                    printed |-> <<Msg("table", <<>>)>>]}
             ELSE {err, [ok |-> TRUE, call |-> Call(op, h, sql, "Done"), printed |-> <<>>]}

\* The match on execute_sql's result in main().
RunStatement(h, sql) ==
    \E r \in execute_sql(h, sql) :
        /\ calls' = <<r.call>>
        /\ out' = r.printed \o
                  <<IF r.ok THEN Msg("Query executed successfully.", <<>>)
                            ELSE Msg("Error executing query", <<>>)>>
        /\ events' = calls' \o out'

\* pool.close().await
ClosePool(h) == closes' = [closes EXCEPT ![h] = @ + 1]

Step(rd) ==
    /\ running
    /\ readline' = rd
    /\ pre' = Session
    /\ UNCHANGED <<render_vars, name_vars>>

UseOrCreate(line) ==
    /\ line \in Routed.use_create
    /\ Step(ReadLine(line))
    /\ LET name == DbNameOf(line)
           isUse == line \in UseLines
           isCreate == line \in CreateLines
       IN  IF name.some
           THEN LET exists == db_file_check(name.val)
                    notice == IF ~exists /\ isUse
                              THEN <<Msg("does not exist. Attempting to create", name.val)>>
                              ELSE <<>>
                IN  /\ database_name' = name.val
                    /\ dropped' = dropped \cup Released(sql_pool)
                    /\ \/ /\ next_pool <= MaxOpens
                          /\ calls' = <<Call("exists", 0, name.val, exists),
                                        Call("connect", next_pool, name.val, "Ok")>>
                          /\ out' = notice \o
                                    (IF isCreate
                                     THEN <<Msg("successfully created.", name.val)>>
                                     ELSE <<>>) \o
                                    <<Msg("Database connection established", name.val)>>
                          /\ events' = <<calls'[1]>> \o notice \o <<calls'[2]>>
                                       \o SubSeq(out', Len(notice) + 1, Len(out'))
                          /\ sql_pool' = Some(next_pool)
                          /\ pool_file' = [pool_file EXCEPT ![next_pool] = name.val]
                          /\ next_pool' = next_pool + 1
                          /\ files' = files \cup {name.val}
                       \/ /\ calls' = <<Call("exists", 0, name.val, exists),
                                        Call("connect", 0, name.val, "Err")>>
                          /\ out' = notice \o <<Msg("Error connecting to database", name.val)>>
                          /\ events' = <<calls'[1]>> \o notice \o <<calls'[2]>>
                                       \o <<Msg("Error connecting to database", name.val)>>
                          /\ sql_pool' = None
                          /\ UNCHANGED <<pool_file, next_pool, files>>
                    /\ UNCHANGED <<running, closes>>
           ELSE /\ out' = <<Msg("Invalid database name.", <<>>)>>
                /\ calls' = <<>>
                /\ events' = out'
                /\ UNCHANGED <<database_name, sql_pool, running, files, next_pool,
                               pool_file, closes, dropped>>

DropSchema(line) ==
    /\ line \in Routed.drop_schema
    /\ Step(ReadLine(line))
    /\ IF sql_pool.some
       THEN /\ closes[sql_pool.val] < MaxCloses
            /\ ClosePool(sql_pool.val)
            /\ calls' = <<Call("close", sql_pool.val, <<>>, "Ok")>>
            /\ out' = <<Msg("Closing database connection...", <<>>),
                        Msg("Connection closed.", <<>>)>>
            /\ events' = <<out'[1], calls'[1], out'[2]>>
            /\ database_name' = NoneName
       ELSE /\ calls' = <<>>
            /\ out' = <<>>
            /\ events' = <<>>
            /\ UNCHANGED <<database_name, closes>>
    /\ UNCHANGED <<sql_pool, running, files, next_pool, pool_file, dropped>>

ShowTables(line) ==
    /\ line \in Routed.show_tables
    /\ Step(ReadLine(line))
    /\ IF sql_pool.some
       THEN RunStatement(sql_pool.val, ShowTablesQuery)
       ELSE /\ calls' = <<>>
            /\ out' = <<Msg("No database selected.", <<>>)>>
            /\ events' = out'
    /\ UNCHANGED <<database_name, sql_pool, running, files, next_pool, pool_file,
                   closes, dropped>>

\* A DROP DATABASE that resets the name only, as DROP SCHEMA does.
ClearNameOnly ==
    /\ database_name' = NoneName
    /\ UNCHANGED <<sql_pool, dropped>>

\* database_name = "None".to_string(); sql_pool = None;
ClearAttachment ==
    /\ database_name' = NoneName
    /\ sql_pool' = None
    /\ dropped' = dropped \cup Released(sql_pool)

DropDatabase(line) ==
    /\ line \in Routed.drop_database
    /\ Step(ReadLine(line))
    /\ LET name == DbNameOf(line) IN
       IF name.some
       THEN LET closing == IF sql_pool.some
                           THEN <<Call("close", sql_pool.val, <<>>, "Ok")>> ELSE <<>>
                closed == IF sql_pool.some
                          THEN <<Msg("Closing database connection...", <<>>),
                                 Msg("Connection closed.", <<>>)>>
                          ELSE <<>>
            IN  /\ IF sql_pool.some
                   THEN closes[sql_pool.val] < MaxCloses /\ ClosePool(sql_pool.val)
                   ELSE UNCHANGED closes
                \* std::fs::remove_file: fails on a missing file, and may fail on
                \* an existing one (permissions)
                /\ \/ /\ name.val \in files
                      /\ files' = files \ {name.val}
                      /\ calls' = closing \o <<Call("remove_file", 0, name.val, "Ok")>>
                      /\ out' = closed \o <<Msg("dropped successfully.", name.val)>>
                   \/ /\ UNCHANGED files
                      /\ calls' = closing \o <<Call("remove_file", 0, name.val, "Err")>>
                      /\ out' = closed \o <<Msg("Error dropping database", name.val)>>
                /\ events' = (IF sql_pool.some
                               THEN <<closed[1], closing[1], closed[2]>> ELSE <<>>)
                              \o <<calls'[Len(calls')], out'[Len(out')]>>
                /\ ClearAttachment
                /\ UNCHANGED <<running, next_pool, pool_file>>
       ELSE /\ out' = <<Msg("Invalid database name.", <<>>)>>
            /\ calls' = <<>>
            /\ events' = out'
            /\ UNCHANGED <<database_name, sql_pool, running, files, next_pool,
                           pool_file, closes, dropped>>

Help(line) ==
    /\ line \in Routed.help
    /\ Step(ReadLine(line))
    /\ out' = <<Msg("GalvanizeDB Basic Manual", <<>>)>>
    /\ calls' = <<>>
    /\ events' = out'
    /\ UNCHANGED <<database_name, sql_pool, running, files, next_pool, pool_file,
                   closes, dropped>>

\* if let Some(pool) = sql_pool { pool.close().await } break
\* (sql_pool is moved into the block and released at its end)
CloseAndLeave(announce) ==
    /\ IF sql_pool.some
       THEN /\ closes[sql_pool.val] < MaxCloses
            /\ ClosePool(sql_pool.val)
            /\ calls' = <<Call("close", sql_pool.val, <<>>, "Ok")>>
            /\ out' = <<Msg(announce, <<>>), Msg("Connection closed.", <<>>)>>
            /\ events' = <<out'[1], calls'[1], out'[2]>>
       ELSE /\ calls' = <<>>
            /\ out' = <<>>
            /\ events' = <<>>
            /\ UNCHANGED closes
    /\ sql_pool' = None
    /\ dropped' = dropped \cup Released(sql_pool)
    /\ running' = FALSE
    /\ UNCHANGED <<database_name, files, next_pool, pool_file>>

Exit(line) ==
    /\ line \in Routed.exit
    /\ Step(ReadLine(line))
    /\ CloseAndLeave("Closing database connection...")

\* A raw-statement branch that gives up the handle when the engine reports an
\* error, as the connect branch does.
RawStatementDetachOnError(line) ==
    /\ line \in Routed.raw
    /\ Step(ReadLine(line))
    /\ IF sql_pool.some
       THEN \E r \in execute_sql(sql_pool.val, line) :
                /\ calls' = <<r.call>>
                /\ out' = r.printed \o
                          <<IF r.ok THEN Msg("Query executed successfully.", <<>>)
                                    ELSE Msg("Error executing query", <<>>)>>
                /\ events' = calls' \o out'
                /\ sql_pool' = IF r.ok THEN sql_pool ELSE None
                /\ dropped' = IF r.ok THEN dropped ELSE dropped \cup Released(sql_pool)
       ELSE /\ calls' = <<>>
            /\ out' = <<Msg("No database selected.", <<>>)>>
            /\ events' = out'
            /\ UNCHANGED <<sql_pool, dropped>>
    /\ UNCHANGED <<database_name, running, files, next_pool, pool_file, closes>>

RawStatement(line) ==
    /\ line \in Routed.raw
    /\ Step(ReadLine(line))
    /\ IF sql_pool.some
       THEN RunStatement(sql_pool.val, line)
       ELSE /\ calls' = <<>>
            /\ out' = <<Msg("No database selected.", <<>>)>>
            /\ events' = out'
    /\ UNCHANGED <<database_name, sql_pool, running, files, next_pool, pool_file,
                   closes, dropped>>

\* Err(ReadlineError::Interrupted) | Err(ReadlineError::Eof)
Interrupted(k) ==
    /\ Step(ReadErr(k))
    /\ CloseAndLeave("Closing database connection due to interruption...")

\* Err(err): any other failure of readline
ReadFailure ==
    /\ Step(ReadErr("Other"))
    /\ out' = <<Msg("Error reading line", <<>>)>>
    /\ calls' = <<>>
    /\ events' = out'
    /\ UNCHANGED <<database_name, sql_pool, running, files, next_pool, pool_file,
                   closes, dropped>>

Next ==
    \/ \E line \in Lines : UseOrCreate(line)
    \/ \E line \in Lines : DropSchema(line)
    \/ \E line \in Lines : ShowTables(line)
    \/ \E line \in Lines : DropDatabase(line)
    \/ \E line \in Lines : Help(line)
    \/ \E line \in Lines : Exit(line)
    \/ \E line \in Lines : RawStatement(line)
    \/ \E k \in {"Interrupted", "Eof"} : Interrupted(k)
    \/ ReadFailure

Spec == Init /\ [][Next]_vars

----------------------------------------------------------------------------
(* execute_sql on its own: one result set fetched, then printed            *)

RenderInit ==
    /\ SessionStart({})
    /\ NameIdle
    /\ \E cols \in ColumnLists :
          /\ \E rows \in RowLists(cols) : result_set = [columns |-> cols, rows |-> rows]
          /\ name_index \in NameIndexes(cols)
    /\ emitted = <<>>
    /\ rendered = FALSE
    /\ returned = "none"

\* Lines 73-135 on the fetched rows: print, then return Ok(()).
PrintResult ==
    /\ ~rendered
    /\ emitted' = render(result_set, name_index)
    /\ rendered' = TRUE
    /\ returned' = "Ok"
    /\ UNCHANGED <<database_name, sql_pool, running, files, next_pool, pool_file,
                   closes, dropped, out, calls, readline, pre, events,
                   result_set, name_index, name_vars>>

RenderNext == PrintResult

SpecRender == RenderInit /\ [][RenderNext]_vars

----------------------------------------------------------------------------
(* extract_db_name on its own: a command line with a name token            *)

\* Longest name token drawn from NameAlphabet.
MaxTokenLen == 5
NameAlphabet == {"a", ".", "d", "b", ";"}
NameTokens ==
    (UNION {[1..n -> NameAlphabet] : n \in 1..MaxTokenLen})
        \cup {Foo, Foo \o Semi, FooDb, FooDb \o Semi}
NameCommands ==
    {KwUse \o SP, PrefixUse,
     KwCreate \o SP \o WordDATABASE \o SP, PrefixCreateDatabase,
     KwDrop \o SP \o WordDATABASE \o SP, PrefixDropDatabase}
NameLines == {c \o t : c \in NameCommands, t \in NameTokens}

NameInit ==
    /\ SessionStart({})
    /\ RenderIdle
    /\ name_line \in NameLines
    /\ name_file = None
    /\ name_refile = None
    /\ name_pc = "read"

\* if let Some(name) = extract_db_name(&line)
ExtractName ==
    /\ name_pc = "read"
    /\ name_file' = extract_db_name(name_line)
    /\ name_pc' = "extracted"
    /\ UNCHANGED <<database_name, sql_pool, running, files, next_pool, pool_file,
                   closes, dropped, out, calls, readline, pre, events,
                   render_vars, name_line, name_refile>>

\* The extracted name given again as a name token (USE <file name>).
ExtractAgain ==
    /\ name_pc = "extracted"
    /\ name_file.some
    /\ name_refile' = extract_db_name(PrefixUse \o name_file.val)
    /\ name_pc' = "again"
    /\ UNCHANGED <<database_name, sql_pool, running, files, next_pool, pool_file,
                   closes, dropped, out, calls, readline, pre, events,
                   render_vars, name_line, name_file>>

NameNext == ExtractName \/ ExtractAgain

SpecName == NameInit /\ [][NameNext]_vars

----------------------------------------------------------------------------
(* Properties of the session loop                                          *)

\* Pools handed out so far on which close() was never called.
OpenPools == {h \in 1..(next_pool - 1) : closes[h] = 0}

GotLine == readline.kind = "Ok"
NoDatabaseSelected == <<Msg("No database selected.", <<>>)>>
InvalidDatabaseName == <<Msg("Invalid database name.", <<>>)>>
CallsOf(o) == SelectSeq(calls, LAMBDA c : c.op = o)

\* Raw statements: lines that carry none of the command keywords.
PlainStatements == {LineSelect, LineInsert}

\* USE / CREATE DATABASE / DROP DATABASE by their leading tokens and token count.
Tokens(l) == split_whitespace(l)
IsUseCommand(l) == Len(Tokens(l)) >= 1 /\ to_uppercase(Tokens(l)[1]) = KwUse
IsDatabaseCommand(l, kw) ==
    /\ Len(Tokens(l)) >= 2
    /\ to_uppercase(Tokens(l)[1]) = kw
    /\ eq_ignore_ascii_case(Tokens(l)[2], KwDatabase)
MalformedLines ==
    {l \in Lines : \/ IsUseCommand(l) /\ Len(Tokens(l)) # 2
                   \/ (IsDatabaseCommand(l, KwCreate) \/ IsDatabaseCommand(l, KwDrop))
                      /\ Len(Tokens(l)) # 3}
WellFormedDropLines ==
    {l \in Lines : IsDatabaseCommand(l, KwDrop) /\ Len(Tokens(l)) = 3}

\* C1: at most one connection opened by the session is open (opened and not yet
\* closed) at any time, also after USE / CREATE DATABASE while attached.
AtMostOneOpenConnection == Cardinality(OpenPools) <= 1

\* C2: a handle the session replaces or clears has had close() invoked on it
\* before it is released: no handle is discarded while still open.
ClosedBeforeDropped == \A h \in dropped : closes[h] > 0

\* C3: a raw statement dispatched while the attached name is "None" prints
\* "No database selected." and makes no call on the SQL engine.
RawWhileUnattachedStaysLocal ==
    (GotLine /\ readline.line \in PlainStatements /\ pre.database_name = NoneName)
        => (out = NoDatabaseSelected /\ calls = <<>>)

\* C4: DROP SCHEMA while a connection is attached closes it and clears the
\* whole attachment (name "None" and no handle), and never deletes a file.
DropSchemaClearsAttachment ==
    (GotLine /\ readline.line \in Routed.drop_schema /\ pre.sql_pool.some)
        => /\ closes[pre.sql_pool.val] > 0
           /\ database_name = NoneName
           /\ sql_pool = None
           /\ CallsOf("remove_file") = <<>>

\* C5: after USE / CREATE DATABASE whose open fails the session is detached
\* (name "None", no handle) and the error is printed; after one whose open
\* succeeds the name and the handle are those of the file just opened.
OpenOutcomeSetsAttachment ==
    (GotLine /\ readline.line \in Routed.use_create /\ CallsOf("connect") # <<>>)
        => LET c == CallsOf("connect")[1] IN
           IF c.res = "Err"
           THEN /\ database_name = NoneName
                /\ sql_pool = None
                /\ out[Len(out)] = Msg("Error connecting to database", c.arg)
           ELSE /\ database_name = c.arg
                /\ sql_pool = Some(c.pool)
                /\ pool_file[c.pool] = c.arg

\* C6: while the loop runs, the name in the prompt is the file of the open
\* connection the session holds, and is "None" exactly when it holds none.
PromptNameMatchesHandle ==
    running =>
        /\ (database_name = NoneName) <=> (sql_pool = None)
        /\ sql_pool.some =>
              /\ pool_file[sql_pool.val] = database_name
              /\ sql_pool.val \in OpenPools

\* C7: a well-formed DROP DATABASE <name> closes the attached connection (if
\* any) first, then calls the filesystem delete exactly once with the normalised
\* file name and makes no other call, and leaves the session with name "None"
\* and no handle whether the delete succeeded or failed.
DropDatabaseDetaches ==
    (GotLine /\ readline.line \in WellFormedDropLines)
        => LET closing == IF pre.sql_pool.some
                          THEN <<Call("close", pre.sql_pool.val, <<>>, "Ok")>>
                          ELSE <<>>
               file == IF readline.line = LineDropFooSemi THEN FooDb ELSE BarDb
           IN  /\ Len(calls) = Len(closing) + 1
               /\ SubSeq(calls, 1, Len(closing)) = closing
               /\ calls[Len(calls)].op = "remove_file"
               /\ calls[Len(calls)].arg = file
               /\ pre.sql_pool.some => closes[pre.sql_pool.val] > 0
               /\ database_name = NoneName
               /\ sql_pool = None

\* DROP DATABASE foo; while attached to foo.db with an open connection, the
\* delete failing.
DropDatabaseWhileAttached ==
    /\ GotLine
    /\ readline.line = LineDropFooSemi
    /\ pre.database_name = FooDb
    /\ pre.sql_pool.some
    /\ closes[pre.sql_pool.val] = 1
    /\ calls = <<Call("close", pre.sql_pool.val, <<>>, "Ok"),
                 Call("remove_file", 0, FooDb, "Err")>>

\* C8: a USE, CREATE DATABASE or DROP DATABASE line with the wrong token count
\* is reported as invalid, makes no engine or filesystem call and leaves the
\* session as it was.
MalformedIsRejected ==
    (GotLine /\ readline.line \in MalformedLines)
        => /\ out = InvalidDatabaseName
           /\ calls = <<>>
           /\ Session = pre

\* C9: once the loop has terminated (EXIT, interrupt or end of input), no
\* connection opened during the session is still open.
TerminatedLeavesNothingOpen == ~running => OpenPools = {}

\* C10: a readline failure other than interrupt / end of input ends the loop
\* like EXIT, the attached connection closed.
ReadFailureTerminates ==
    readline.kind = "Other"
        => /\ ~running
           /\ pre.sql_pool.some => closes[pre.sql_pool.val] > 0

----------------------------------------------------------------------------
(* Properties of the printed table                                         *)

NRows == Len(result_set.rows)
NCols == Len(result_set.columns)
TablePrinted == rendered /\ NRows > 0

\* The pieces of s between the occurrences of the character c.
SplitBy(s, c) ==
    LET cuts == {0, Len(s) + 1} \cup {i \in 1..Len(s) : s[i] = c}
        Nth(S, k) == CHOOSE x \in S : Cardinality({y \in S : y <= x}) = k
    IN  [k \in 1..(Cardinality(cuts) - 1) |->
            SubSeq(s, Nth(cuts, k) + 1, Nth(cuts, k + 1) - 1)]

\* Content width of column i as printed: its "-" run in the top border less
\* the two padding positions.
ShownWidth(i) == Len(SplitBy(emitted[1].text, "+")[i + 1]) - 2

\* The text printed at column position i of data line r.
ShownCell(r, i) == trim(SplitBy(emitted[3 + r].text, "|")[i + 1])

\* The text of value v in a column of declared type t: Text verbatim, Integer
\* in base 10, otherwise the Real text if v is a Real and else the placeholder;
\* a value the kind cannot read is empty.
TextOf(v, t) ==
    IF t = TypeTEXT THEN (IF v.kind = "Text" THEN v.text ELSE <<>>)
    ELSE IF t = TypeINTEGER THEN (IF v.kind = "Integer" THEN i64_to_string(v.int) ELSE <<>>)
    ELSE IF v.kind = "Real" THEN f64_to_string(v) ELSE UnsupportedType

\* Longest text printed in column i.
LongestShown(i) ==
    CHOOSE m \in {Len(ShownCell(r, i)) : r \in 1..NRows} :
        \A r \in 1..NRows : Len(ShownCell(r, i)) <= m

LineWidths(lines) == {Len(lines[k].text) : k \in DOMAIN lines}

\* C11: with N > 0 rows every emitted line (borders, header, data lines) has
\* the same length, also when a Real text is longer than "Unsupported type".
AllLinesSameLength == TablePrinted => Cardinality(LineWidths(emitted)) = 1

\* C12: each column's content width is max(L, K), K the length of its name and
\* L the length of the longest text printed in it, for every column kind; and a
\* result set that differs in one cell, with the same L in that column, is
\* printed with the same line widths.
OtherCell(r, i, v) ==
    [result_set EXCEPT !.rows = [result_set.rows EXCEPT ![r] = [@ EXCEPT ![i] = v]]]
LongestText(rs, i) ==
    CHOOSE m \in {Len(TextOf(rs.rows[r][i], rs.columns[i].type)) : r \in 1..Len(rs.rows)} :
        \A r \in 1..Len(rs.rows) :
            Len(TextOf(rs.rows[r][i], rs.columns[i].type)) <= m
ColumnWidthIsMax ==
    TablePrinted =>
        /\ \A i \in 1..NCols :
              ShownWidth(i) = MaxOf(LongestShown(i), Len(result_set.columns[i].name))
        /\ \A r \in 1..NRows, i \in 1..NCols :
              \A v \in CellsOfType(result_set.columns[i].type) :
                  LongestText(OtherCell(r, i, v), i) = LongestText(result_set, i)
                      => LineWidths(render(OtherCell(r, i, v), name_index))
                            = LineWidths(emitted)

\* C13: N > 0 rows give exactly N + 4 lines: top border, header, separator,
\* the N data lines, bottom border, in that order; no rows give the single
\* "No results found." line and no table; execute_sql returns Ok either way.
LineKinds == [k \in DOMAIN emitted |-> emitted[k].kind]
LineCountAndOrder ==
    rendered =>
        /\ returned = "Ok"
        /\ IF NRows = 0
           THEN emitted = <<OutLine("info", NoResultsFound)>>
           ELSE /\ Len(emitted) = NRows + 4
                /\ LineKinds = <<"border", "header", "border">>
                                \o [r \in 1..NRows |-> "data"] \o <<"border">>
                /\ emitted[1] = emitted[3]
                /\ emitted[1] = emitted[NRows + 4]

\* Two rows in two columns, printed.
TwoRowsPrinted == rendered /\ NRows = 2 /\ NCols = 2 /\ Len(emitted) = 6

\* C15: a cell in a column whose type is neither TEXT nor INTEGER is printed as
\* its Real text when its value reads as a float, and as "Unsupported type"
\* only when it does not.
UnsupportedFallsBackToReal ==
    TablePrinted =>
        \A r \in 1..NRows, i \in 1..NCols :
            result_set.columns[i].type \notin {TypeTEXT, TypeINTEGER}
                => ShownCell(r, i) =
                      (IF result_set.rows[r][i].kind = "Real"
                       THEN f64_to_string(result_set.rows[r][i])
                       ELSE UnsupportedType)

\* C17: in every data line the cell at column position i shows the row's i-th
\* value, also when columns share a name.
CellsArePositional ==
    TablePrinted =>
        \A r \in 1..NRows, i \in 1..NCols :
            ShownCell(r, i) = TextOf(result_set.rows[r][i], result_set.columns[i].type)

----------------------------------------------------------------------------
(* Properties of the session, continued                                    *)

IsCall(e) == "op" \in DOMAIN e
IsMsg(e) == "msg" \in DOMAIN e
\* Positions in events of the calls of operation o, and of the message m.
CallAt(o) == {k \in DOMAIN events : IsCall(events[k]) /\ events[k].op = o}
MsgAt(m) == {k \in DOMAIN events : IsMsg(events[k]) /\ events[k].msg = m}
CreationNotice == "does not exist. Attempting to create"
\* The step dispatched a USE / CREATE DATABASE line that carries a name.
OpenDispatched ==
    /\ GotLine
    /\ readline.line \in Routed.use_create
    /\ DbNameOf(readline.line).some
ConnectResult == events[CHOOSE k \in CallAt("connect") : TRUE].res

\* C14: USE <name> on a file that does not exist prints the creation notice
\* before the open is attempted and, when the open succeeds, leaves the session
\* attached to the normalized name; the notice is printed only for USE on a
\* file that does not exist, never for CREATE DATABASE or an existing file.
NoticeOnlyForUseOfMissingFile ==
    OpenDispatched =>
        LET name == DbNameOf(readline.line).val
            missing ==
                \E k \in CallAt("exists") :
                    events[k].arg = name /\ events[k].res = FALSE
            expected == IsUseCommand(readline.line) /\ missing
        IN  /\ Cardinality(CallAt("connect")) = 1
            /\ (MsgAt(CreationNotice) # {}) <=> expected
            /\ \A n \in MsgAt(CreationNotice) :
                  /\ events[n].arg = name
                  /\ \A k \in CallAt("connect") : n < k
                  /\ \A k \in CallAt("exists") : k < n
            /\ (expected /\ ConnectResult = "Ok") =>
                  /\ database_name = name
                  /\ sql_pool.some
                  /\ pool_file[sql_pool.val] = name
                  /\ closes[sql_pool.val] = 0
                  /\ name \in files

\* "USE foo" on a missing foo.db, opened: attached to foo.db after the notice.
UseCreatesMissingFile ==
    /\ GotLine
    /\ readline.line = LineUseFoo
    /\ MsgAt(CreationNotice) # {}
    /\ ConnectResult = "Ok"
    /\ database_name = FooDb

\* An open connection was attached before the step.
WasAttached ==
    /\ pre.sql_pool.some
    /\ closes[pre.sql_pool.val] = 0
    /\ pre.database_name # NoneName

\* C16: SHOW TABLES; while a connection is attached sends the fixed listing
\* statement to that connection, and a zero-row answer prints "No results
\* found."; with no connection attached it prints "No database selected." and
\* sends nothing to the engine.
ShowTablesUsesAttachment ==
    (GotLine /\ readline.line \in Routed.show_tables) =>
        IF WasAttached
        THEN /\ Len(calls) = 1
             /\ calls[1].op = "fetch_all"
             /\ calls[1].pool = pre.sql_pool.val
             /\ calls[1].arg = ShowTablesQuery
             /\ pool_file[calls[1].pool] = pre.database_name
             /\ calls[1].res = "NoRows" =>
                    out = <<Msg("No results found.", <<>>),
                            Msg("Query executed successfully.", <<>>)>>
        ELSE out = NoDatabaseSelected /\ calls = <<>>

\* C18: nothing is invoked on a connection after its close: no statement is
\* executed on a closed connection, and close is invoked at most once on each.
NothingAfterClose ==
    /\ \A h \in Pools : closes[h] <= 1
    /\ \A k \in DOMAIN calls :
          calls[k].op \in {"execute", "fetch_all"} => closes[calls[k].pool] = 0

\* C19: HELP, ?, SHOW TABLES; and raw statements, whatever the engine answers,
\* leave the session as it was: same name, same handle, no connection opened
\* or closed, and the loop goes on.
FrameLines == Routed.help \cup Routed.show_tables \cup Routed.raw
QueriesLeaveSessionAlone ==
    (GotLine /\ readline.line \in FrameLines) =>
        /\ Session = pre
        /\ running
        /\ \A k \in DOMAIN calls : calls[k].op \notin {"connect", "close"}

\* A raw statement forwarded to the open attached connection, refused by the
\* engine.
RawStatementFailed ==
    /\ GotLine
    /\ readline.line = LineInsert
    /\ WasAttached
    /\ Len(calls) = 1
    /\ calls[1].res = "Err"

----------------------------------------------------------------------------
(* Properties of name normalization                                        *)

\* Strip one trailing ';' from the token, then append ".db" unless present.
Normalized(tok) ==
    LET bare == IF tok # <<>> /\ tok[Len(tok)] = ";"
                THEN SubSeq(tok, 1, Len(tok) - 1) ELSE tok
    IN  IF Len(bare) >= 3 /\ SubSeq(bare, Len(bare) - 2, Len(bare)) = DotDb
        THEN bare ELSE bare \o DotDb
NameToken == Tokens(name_line)[Len(Tokens(name_line))]
FooForms == {Foo, Foo \o Semi, FooDb, FooDb \o Semi}

\* C20: normalization strips one trailing ';' and appends ".db" only if absent;
\* it is idempotent, and foo, foo;, foo.db and foo.db; all give foo.db under
\* USE, CREATE DATABASE and DROP DATABASE alike.
NormalizationIsIdempotent ==
    /\ name_pc \in {"extracted", "again"} =>
          /\ name_file = Some(Normalized(NameToken))
          /\ NameToken \in FooForms => name_file = Some(FooDb)
    /\ name_pc = "again" => name_refile = name_file

\* "DROP DATABASE foo.db;" normalized twice.
NormalizedTwice ==
    /\ name_pc = "again"
    /\ name_line = KwDrop \o SP \o WordDATABASE \o SP \o FooDb \o Semi
    /\ name_refile = Some(FooDb)

====
